---- MODULE Spec2Model ----
(***************************************************************************)
(* Model of segmenter.py (class Segmenter): the mask inventory built by    *)
(* _generate_masks, the selection state mutated by get_best_point, the     *)
(* weighted mask selector and the two-round refinement of                  *)
(* propagate_points.                                                       *)
(*                                                                         *)
(* Numbers.  Pixel counts and areas are integers.  The floating-point      *)
(* quantities of _compute_mask_metrics are kept in fixed point (compactness*)
(* and normalized area in 1/1000, the weighted score in 1/10000), every    *)
(* division truncating.  A floating-point value is a record [k, v]: k is   *)
(* "fin" (v the fixed-point value), "nan" or "ninf" (IEEE NaN, -infinity), *)
(* compared as IEEE 754 compares them.                                     *)
(*                                                                         *)
(* Identity.  id(mask) of a mask dict is modelled by the slot the external *)
(* generator returned it in: the dicts of one generate() call are distinct *)
(* live objects, so their ids are pairwise distinct whatever they hold.    *)
(***************************************************************************)
EXTENDS Integers, Sequences, FiniteSets, TLC

VARIABLES image, raw, masks, selected_masks, history, stub, frame, calls,
          trace, ret, pc

vars == <<image, raw, masks, selected_masks, history, stub, frame, calls,
          trace, ret, pc>>

-----------------------------------------------------------------------------
(* Bounds of the model.  calls and trace describe the public call started
   last: the predictor calls it made and its steps in order. *)

\* longest output of the external mask generator
MaxRaw == 3
\* get_best_point calls followed in one session
MaxCalls == 4
\* most candidates the external predictor returns in one call
MaxCand == 2

-----------------------------------------------------------------------------
(* Values *)

None == [kind |-> "None"]

\* the "largest_mask = None" of get_best_point: no mask object, id 0
NoMask == [id |-> 0, area |-> 0, segmentation |-> {}]

Fin(v) == [k |-> "fin", v |-> v]
NaN == [k |-> "nan", v |-> 0]
NegInf == [k |-> "ninf", v |-> 0]

\* IEEE 754 a > b: false when either side is NaN; -inf is below every finite
FGt(a, b) ==
    IF a.k = "nan" \/ b.k = "nan" THEN FALSE
    ELSE IF a.k = "ninf" THEN FALSE
    ELSE IF b.k = "ninf" THEN TRUE
    ELSE a.v > b.v

-----------------------------------------------------------------------------
(* Inventory construction: Segmenter._generate_masks *)

\* mutant: the threshold itself is kept
Informative_le(mask_area, image_area) == mask_area * 100 <= 95 * image_area

\* (mask_area / image_area) < coverage_threshold, coverage_threshold = 0.95.
\* The double 0.95 is the double nearest 19/20 and the quotient is correctly
\* rounded, so for every image below 10^14 pixels the comparison of doubles
\* agrees with the comparison of the exact ratios.
Informative(mask_area, image_area) == mask_area * 100 < 95 * image_area

RECURSIVE FilterLoop(_, _, _, _)
\* the for loop over masks, appending to filtered_masks
FilterLoop(ms, i, image_area, filtered_masks) ==
    IF i > Len(ms) THEN filtered_masks
    ELSE LET mask == ms[i]
             mask_area == mask.area
         IN  IF Informative(mask_area, image_area)
             THEN FilterLoop(ms, i + 1, image_area, Append(filtered_masks, mask))
             ELSE FilterLoop(ms, i + 1, image_area, filtered_masks)

\* self.masks = self._generate_masks(); self.selected_masks = set()
_generate_masks ==
    /\ pc = "new"
    /\ masks' = FilterLoop(raw, 1, image.height * image.width, <<>>)
    /\ selected_masks' = {}
    /\ pc' = "idle"
    /\ UNCHANGED <<image, raw, history, stub, frame, calls, trace, ret>>

-----------------------------------------------------------------------------
(* Largest unselected mask and its centroid: Segmenter.get_best_point *)

\* mutant: a mask of equal area replaces the candidate held
AreaBeats_ge(mask_area, largest_area) == mask_area >= largest_area

\* if mask_area > largest_area
AreaBeats(mask_area, largest_area) == mask_area > largest_area

\* mutant: a mask is recognised by its content, not by its identity
Unselected_content(mask, ms, selected) ==
    \A j \in 1..Len(ms) :
        ms[j].id \in selected =>
            ~(ms[j].area = mask.area /\ ms[j].segmentation = mask.segmentation)

\* mask_id = id(mask); if mask_id not in self.selected_masks
Unselected(mask, ms, selected) == mask.id \notin selected

RECURSIVE ScanLargest(_, _, _, _, _)
\* the for loop over self.masks with largest_mask, largest_area
ScanLargest(ms, selected, i, largest_mask, largest_area) ==
    IF i > Len(ms) THEN largest_mask
    ELSE LET mask == ms[i]
         IN  IF Unselected(mask, ms, selected) /\ AreaBeats(mask.area, largest_area)
             THEN ScanLargest(ms, selected, i + 1, mask, mask.area)
             ELSE ScanLargest(ms, selected, i + 1, largest_mask, largest_area)

RECURSIVE SumCoord(_, _)
\* sum of coordinate c (1 = row, 2 = column) over a set of pixels
SumCoord(indices, c) ==
    IF indices = {} THEN 0
    ELSE LET p == CHOOSE q \in indices : TRUE
         IN  p[c] + SumCoord(indices \ {p}, c)

\* tuple(map(int, np.mean(indices, axis=0))): the mean row and the mean
\* column of the true pixels, truncated (coordinates are never negative)
Centroid(indices) ==
    <<SumCoord(indices, 1) \div Cardinality(indices),
      SumCoord(indices, 2) \div Cardinality(indices)>>

\* mutant: the mask is marked before its pixels are looked at
SelectedAfter_markFirst(selected, largest_mask) ==
    IF largest_mask = NoMask THEN selected
    ELSE selected \cup {largest_mask.id}

\* mutant: the set is rebuilt from the last mask alone
SelectedAfter_reset(selected, largest_mask) ==
    IF largest_mask = NoMask \/ largest_mask.segmentation = {} THEN selected
    ELSE {largest_mask.id}

\* the two early returns, then self.selected_masks.add(id(largest_mask))
SelectedAfter(selected, largest_mask) ==
    IF largest_mask = NoMask THEN selected
    ELSE IF largest_mask.segmentation = {} THEN selected
    ELSE selected \cup {largest_mask.id}

\* the value get_best_point returns
BestPoint(largest_mask) ==
    IF largest_mask = NoMask THEN None
    ELSE IF largest_mask.segmentation = {} THEN None
    ELSE [kind |-> "centroid", point |-> Centroid(largest_mask.segmentation)]

get_best_point ==
    /\ pc = "idle"
    /\ Len(history) < MaxCalls
    /\ LET largest_mask == ScanLargest(masks, selected_masks, 1, NoMask, 0)
       IN  /\ selected_masks' = SelectedAfter(selected_masks, largest_mask)
           /\ ret' = BestPoint(largest_mask)
           /\ history' = Append(history,
                                [chosen |-> largest_mask.id,
                                 before |-> selected_masks,
                                 after |-> SelectedAfter(selected_masks, largest_mask),
                                 ret |-> BestPoint(largest_mask)])
    /\ calls' = <<>>
    /\ trace' = <<>>
    /\ UNCHANGED <<image, raw, masks, stub, frame, pc>>

-----------------------------------------------------------------------------
(* Mask metrics: Segmenter._compute_mask_metrics *)

RECURSIVE ISqrtIn(_, _, _)
\* the largest r in lo..hi with r * r <= n
ISqrtIn(n, lo, hi) ==
    IF lo >= hi THEN lo
    ELSE LET mid == (lo + hi + 1) \div 2
         IN  IF mid * mid <= n THEN ISqrtIn(n, mid, hi) ELSE ISqrtIn(n, lo, mid - 1)

\* np.sqrt, truncated, for arguments below 2^31
ISqrt(n) == ISqrtIn(n, 0, 46340)

\* x ** 4 in 1/1000
Pow4(x) == LET sq == (x * x) \div 1000 IN (sq * sq) \div 1000

\* np.log(1 + c) in 1/1000 for c in 0..1000: the Pade approximant
\* c (6 + c) / (6 + 4 c), within 0.007 of the logarithm and increasing in c
Log1p(c) == (c * (6000 + c)) \div (6000 + 4 * c)

Min(a, b) == IF a <= b THEN a ELSE b

\* perimeter(mask) of skimage.measure, an external primitive: the candidate
\* carries the value it returns
perimeter(mask) == mask.peri

_compute_mask_metrics(mask, score, total_pixels) ==
    LET mask_area == mask.area
        mask_perimeter == perimeter(mask)
        \* 2 * np.sqrt(np.pi * mask_area), in 1/100
        ideal_perimeter == 2 * ISqrt(31416 * mask_area)
        raw_compactness ==
            IF mask_area > 0
            THEN IF mask_perimeter > 0
                 THEN (ideal_perimeter * 10) \div mask_perimeter
                 ELSE 0
            ELSE 0
        compactness == Min(raw_compactness, 1000)
        normalized_area == (mask_area * 1000) \div total_pixels
        \* normalized_area < 0.001
        small_mask_penalty ==
            IF mask_area * 1000 < total_pixels THEN Pow4(normalized_area) ELSE 0
        \* normalized_area > 0.5
        large_mask_penalty ==
            IF 2 * mask_area > total_pixels THEN Pow4(normalized_area - 400) ELSE 0
        size_penalty == normalized_area + small_mask_penalty + large_mask_penalty
    IN  [compactness |-> compactness, size_penalty |-> size_penalty, score |-> score]

\* weights=(1.0, 0.8, 1.4), in tenths
weights == <<10, 8, 14>>

\* w_s * sam_score + w_c * np.log(1 + compactness) - w_a * size_penalty, in
\* 1/10000; a NaN or infinite sam_score makes the sum NaN or infinite
weighted_score(mask, score, total_pixels) ==
    LET m == _compute_mask_metrics(mask, score, total_pixels)
        w_s == weights[1]
        w_c == weights[2]
        w_a == weights[3]
    IN  IF m.score.k = "fin"
        THEN Fin(w_s * m.score.v + w_c * Log1p(m.compactness) - w_a * m.size_penalty)
        ELSE m.score

-----------------------------------------------------------------------------
(* Mask selector: Segmenter._weighted_mask_selection *)

\* mutant: the scan starts from the first candidate
InitialBest_first == [best_score |-> NegInf, best_index |-> 0, touched |-> {}]

\* best_score = -np.inf; best_index = -1; touched: the indices i at which
\* the call has read masks[i] and scores[i]
InitialBest == [best_score |-> NegInf, best_index |-> -1, touched |-> {}]

RECURSIVE SelectLoop(_, _, _, _, _)
\* for i, mask in enumerate(masks): i counts from 0, the element is ms[i + 1]
SelectLoop(ms, scores, total_pixels, i, best) ==
    IF i >= Len(ms) THEN best
    ELSE LET mask == ms[i + 1]
             w == weighted_score(mask, scores[i + 1], total_pixels)
             seen == best.touched \cup {i}
         IN  IF FGt(w, best.best_score)
             THEN SelectLoop(ms, scores, total_pixels, i + 1,
                             [best_score |-> w, best_index |-> i, touched |-> seen])
             ELSE SelectLoop(ms, scores, total_pixels, i + 1,
                             [best EXCEPT !.touched = seen])

\* the record of one call; its best_index is the value returned
_weighted_mask_selection(ms, scores, total_pixels) ==
    SelectLoop(ms, scores, total_pixels, 0, InitialBest)

-----------------------------------------------------------------------------
(* numpy / list indexing with an integer index *)

\* an index is in range when -len <= i < len
PyIndexOK(seq, i) == -Len(seq) <= i /\ i < Len(seq)

\* seq[i] for an index in range: a negative index counts from the end
PyIndex(seq, i) == IF i >= 0 THEN seq[i + 1] ELSE seq[Len(seq) + i + 1]

-----------------------------------------------------------------------------
(* The external predictor, as a stub: stub[r] is what the r-th predict call
   of a propagate_points call does, an exception or one consistent
   (masks, scores, logits) triple.  A predicted mask carries the two values
   the metrics read from it, mask.sum() and perimeter(mask). *)

Raising == [raises |-> TRUE, masks |-> <<>>, scores |-> <<>>, logits |-> <<>>]

Output(cs, r) ==
    [raises |-> FALSE,
     masks  |-> [i \in 1..Len(cs) |->
                    [round |-> r, slot |-> i - 1,
                     area |-> cs[i].area, peri |-> cs[i].peri]],
     scores |-> [i \in 1..Len(cs) |-> cs[i].score],
     logits |-> [i \in 1..Len(cs) |-> [round |-> r, slot |-> i - 1]]]

\* what the frame of propagate_points holds outside a call
NoFrame ==
    [point_coords |-> None, point_labels |-> None, masks |-> <<>>,
     scores |-> <<>>, logits |-> <<>>, selected_mask |-> None,
     mask_input |-> None]

Event(ev, arg) == [ev |-> ev, arg |-> arg]

Raise(exc) == [kind |-> "raise", exc |-> exc]

-----------------------------------------------------------------------------
(* Two-round refinement: Segmenter.propagate_points *)

\* the point prompts a caller passes
Prompts ==
    {[points |-> "P1", labels |-> "L1"], [points |-> "P2", labels |-> "L2"]}

\* masks, scores, logits = self.predictor.predict(point_coords=points,
\* point_labels=labels, multimask_output=True); an exception of the
\* predictor leaves propagate_points uncaught
Predict1 ==
    /\ pc = "idle"
    /\ \E prompt \in Prompts :
        LET call == [point_coords |-> prompt.points,
                     point_labels |-> prompt.labels,
                     mask_input |-> None, multimask_output |-> TRUE]
        IN  /\ calls' = <<call>>
            /\ IF stub[1].raises
               THEN /\ trace' = <<Event("predict", call),
                                  Event("raise", "PredictorError")>>
                    /\ ret' = Raise("PredictorError")
                    /\ frame' = NoFrame
                    /\ pc' = "idle"
               ELSE /\ trace' = <<Event("predict", call)>>
                    /\ ret' = [kind |-> "pending"]
                    /\ frame' = [NoFrame EXCEPT
                                    !.point_coords = prompt.points,
                                    !.point_labels = prompt.labels,
                                    !.masks = stub[1].masks,
                                    !.scores = stub[1].scores,
                                    !.logits = stub[1].logits]
                    /\ pc' = "coarse"
    /\ UNCHANGED <<image, raw, masks, selected_masks, history, stub>>

\* mutant: an empty first round is passed over and the predictor is asked
\* again without a prior
Select1_fallback ==
    /\ pc = "coarse"
    /\ LET sel == _weighted_mask_selection(frame.masks, frame.scores,
                                           image.height * image.width)
       IN  /\ trace' = Append(trace, Event("select", sel))
           /\ frame' = [frame EXCEPT
                           !.selected_mask = sel.best_index,
                           !.mask_input =
                               IF PyIndexOK(frame.logits, sel.best_index)
                               THEN PyIndex(frame.logits, sel.best_index)
                               ELSE None]
           /\ pc' = "prior"
           /\ ret' = ret
    /\ UNCHANGED <<image, raw, masks, selected_masks, history, stub, calls>>

\* mutant: the prior is the first logit whatever was selected
Select1_firstLogit ==
    /\ pc = "coarse"
    /\ LET sel == _weighted_mask_selection(frame.masks, frame.scores,
                                           image.height * image.width)
       IN  IF frame.logits # <<>>
              THEN /\ trace' = Append(trace, Event("select", sel))
                   /\ frame' = [frame EXCEPT
                                   !.selected_mask = sel.best_index,
                                   !.mask_input = frame.logits[1]]
                   /\ pc' = "prior"
                   /\ ret' = ret
              ELSE /\ trace' = Append(Append(trace, Event("select", sel)),
                                      Event("raise", "IndexError"))
                   /\ frame' = NoFrame
                   /\ pc' = "idle"
                   /\ ret' = Raise("IndexError")
    /\ UNCHANGED <<image, raw, masks, selected_masks, history, stub, calls>>

\* selected_mask = self._weighted_mask_selection(masks, scores)
\* mask_input = logits[selected_mask, :, :]   (IndexError out of range)
Select1 ==
    /\ pc = "coarse"
    /\ LET sel == _weighted_mask_selection(frame.masks, frame.scores,
                                           image.height * image.width)
       IN  IF PyIndexOK(frame.logits, sel.best_index)
           THEN /\ trace' = Append(trace, Event("select", sel))
                /\ frame' = [frame EXCEPT
                                !.selected_mask = sel.best_index,
                                !.mask_input = PyIndex(frame.logits, sel.best_index)]
                /\ pc' = "prior"
                /\ ret' = ret
           ELSE /\ trace' = Append(Append(trace, Event("select", sel)),
                                   Event("raise", "IndexError"))
                /\ frame' = NoFrame
                /\ pc' = "idle"
                /\ ret' = Raise("IndexError")
    /\ UNCHANGED <<image, raw, masks, selected_masks, history, stub, calls>>

\* masks, scores, logits = self.predictor.predict(point_coords=points,
\* point_labels=labels, mask_input=mask_input[None, :, :],
\* multimask_output=True): the three names are bound again
Predict2 ==
    /\ pc = "prior"
    /\ LET call == [point_coords |-> frame.point_coords,
                    point_labels |-> frame.point_labels,
                    mask_input |-> frame.mask_input, multimask_output |-> TRUE]
       IN  /\ calls' = Append(calls, call)
           /\ IF stub[2].raises
              THEN /\ trace' = Append(Append(trace, Event("predict", call)),
                                      Event("raise", "PredictorError"))
                   /\ ret' = Raise("PredictorError")
                   /\ frame' = NoFrame
                   /\ pc' = "idle"
              ELSE /\ trace' = Append(trace, Event("predict", call))
                   /\ ret' = ret
                   /\ frame' = [frame EXCEPT
                                   !.masks = stub[2].masks,
                                   !.scores = stub[2].scores,
                                   !.logits = stub[2].logits]
                   /\ pc' = "refined"
    /\ UNCHANGED <<image, raw, masks, selected_masks, history, stub>>

\* return masks[self._weighted_mask_selection(masks, scores)]
Select2 ==
    /\ pc = "refined"
    /\ LET sel == _weighted_mask_selection(frame.masks, frame.scores,
                                           image.height * image.width)
       IN  IF PyIndexOK(frame.masks, sel.best_index)
           THEN /\ trace' = Append(Append(trace, Event("select", sel)),
                                   Event("return", PyIndex(frame.masks, sel.best_index)))
                /\ ret' = [kind |-> "mask",
                           mask |-> PyIndex(frame.masks, sel.best_index)]
           ELSE /\ trace' = Append(Append(trace, Event("select", sel)),
                                   Event("raise", "IndexError"))
                /\ ret' = Raise("IndexError")
    /\ frame' = NoFrame
    /\ pc' = "idle"
    /\ UNCHANGED <<image, raw, masks, selected_masks, history, stub, calls>>

-----------------------------------------------------------------------------
(* Inputs *)

\* sequences over S of length at most n
SeqUpTo(S, n) == UNION {[1..k -> S] : k \in 0..n}

SegA == {<<0, 0>>, <<0, 1>>, <<1, 1>>}
SegB == {<<3, 2>>, <<4, 5>>}

\* what the generator may report of one mask: its area and its segmentation
MaskPool ==
    {[area |-> 0, segmentation |-> SegA],
     [area |-> 10, segmentation |-> SegA],
     [area |-> 50, segmentation |-> SegA],
     [area |-> 200, segmentation |-> SegB],
     [area |-> 200, segmentation |-> {}],
     [area |-> 4000, segmentation |-> SegB],
     [area |-> 9500, segmentation |-> SegA],
     [area |-> 9600, segmentation |-> SegA]}

SmallMaskPool ==
    {[area |-> 50, segmentation |-> SegA],
     [area |-> 9600, segmentation |-> SegA]}

\* the output of mask_generator.generate: the mask in slot i has identity i
RawOutputs(pool, n) ==
    {[i \in 1..Len(s) |->
        [id |-> i, area |-> s[i].area, segmentation |-> s[i].segmentation]] :
     s \in SeqUpTo(pool, n)}

Big == [area |-> 6000, peri |-> 320, score |-> Fin(900)]
Small == [area |-> 100, peri |-> 40, score |-> Fin(800)]
SmallNaN == [area |-> 100, peri |-> 40, score |-> NaN]
SmallNegInf == [area |-> 100, peri |-> 40, score |-> NegInf]
Blank == [area |-> 0, peri |-> 0, score |-> Fin(500)]

CandidatePool == {Big, Small, SmallNaN, SmallNegInf, Blank}

Outputs(r, n) == {Raising} \cup {Output(cs, r) : cs \in SeqUpTo(CandidatePool, n)}

\* the outputs every predictor of a bound is paired with
FewOutputs(r) == {Raising, Output(<<>>, r), Output(<<Big, Small>>, r)}

\* one round ranges over every output of the bound, the other over a few
Stubs(n) ==
    {<<o1, o2>> : o1 \in Outputs(1, n), o2 \in FewOutputs(2)}
    \cup {<<o1, o2>> : o1 \in FewOutputs(1), o2 \in Outputs(2, n)}

FewStubs ==
    {<<Output(<<Big, Small>>, 1), Output(<<Small, Small>>, 2)>>,
     <<Raising, Output(<<Small>>, 2)>>}

Images == {[height |-> 100, width |-> 100]}

-----------------------------------------------------------------------------
(* Specifications *)

InitWith(raws, stubs) ==
    /\ image \in Images
    /\ raw \in raws
    /\ stub \in stubs
    /\ masks = <<>>
    /\ selected_masks = {}
    /\ history = <<>>
    /\ frame = NoFrame
    /\ calls = <<>>
    /\ trace = <<>>
    /\ ret = [kind |-> "unset"]
    /\ pc = "new"

\* a session over a rich inventory and a few predictors
Init == InitWith(RawOutputs(MaskPool, MaxRaw), FewStubs)

\* a session over a small inventory and every predictor of the bound
InitRefine == InitWith(RawOutputs(SmallMaskPool, 1), Stubs(MaxCand))

Next ==
    \/ _generate_masks
    \/ get_best_point
    \/ Predict1
    \/ Select1
    \/ Predict2
    \/ Select2

Spec == Init /\ [][Next]_vars

SpecRefine == InitRefine /\ [][Next]_vars

-----------------------------------------------------------------------------
(* Properties of the inventory and of the selection state *)

\* the retained mask of identity id
MaskOf(id) == masks[CHOOSE i \in 1..Len(masks) : masks[i].id = id]

RetainedIds == {masks[i].id : i \in 1..Len(masks)}

\* every retained mask has positive recorded area and a true pixel
AllGood ==
    \A i \in 1..Len(masks) : masks[i].area > 0 /\ masks[i].segmentation # {}

\* id is the mask of largest area outside prior, the earliest slot on a tie
IsLargestOutside(id, prior) ==
    \E i \in 1..Len(masks) :
        /\ masks[i].id = id
        /\ id \notin prior
        /\ \A j \in 1..Len(masks) :
              masks[j].id \notin prior =>
                  \/ masks[j].area < masks[i].area
                  \/ masks[j].area = masks[i].area /\ j >= i

\* C1: over N retained masks that all have positive area and a true pixel,
\* the k-th get_best_point call (k <= N) returns a centroid of the largest
\* mask not chosen before (earliest slot on a tie), so the chosen areas do
\* not increase and no mask is chosen twice; call N+1 and every later call
\* return None
C1_LargestFirstThenNone ==
    (pc # "new" /\ AllGood) =>
        \A k \in 1..Len(history) :
            LET prior == {history[j].chosen : j \in 1..(k - 1)}
            IN  IF k <= Len(masks)
                THEN /\ IsLargestOutside(history[k].chosen, prior)
                     /\ history[k].ret.kind = "centroid"
                     /\ k > 1 => MaskOf(history[k].chosen).area
                                    <= MaskOf(history[k - 1].chosen).area
                ELSE /\ history[k].chosen = 0
                     /\ history[k].ret = None

\* C1 witness: areas 50, 200, 10 in this order were chosen 200, 50, 10 and
\* the fourth call returned None
C1_Witness ==
    /\ Len(masks) = 3 /\ AllGood
    /\ masks[1].area = 50 /\ masks[2].area = 200 /\ masks[3].area = 10
    /\ Len(history) = 4
    /\ <<history[1].chosen, history[2].chosen, history[3].chosen>> = <<2, 1, 3>>
    /\ history[4].ret = None

\* C2: selected_masks starts empty and every step of a session, a
\* get_best_point call or a step of propagate_points, keeps every identity
\* the set holds
C2_SelectedOnlyGrows ==
    (selected_masks = {}) /\ [][selected_masks \subseteq selected_masks']_vars

\* C2 witness: two masks are selected and a propagate_points call has
\* returned its mask since
C2_Witness ==
    /\ Cardinality(selected_masks) >= 2
    /\ pc = "idle" /\ ret.kind = "mask"

\* C3: once get_best_point has chosen a mask without a true pixel as its
\* largest unselected mask, the call returns None and no later call chooses
\* that mask again
C3_DegenerateNotReoffered ==
    \A k \in 1..Len(history) :
        (history[k].chosen # 0 /\ MaskOf(history[k].chosen).segmentation = {}) =>
            /\ history[k].ret = None
            /\ \A l \in (k + 1)..Len(history) : history[l].chosen # history[k].chosen

\* C4: a call whose largest unselected mask has no true pixel returns None,
\* as a call over an exhausted inventory does, and leaves selected_masks as
\* it was, the chosen mask not in it
C4_DegenerateNotMarked ==
    \A k \in 1..Len(history) :
        (history[k].chosen # 0 /\ MaskOf(history[k].chosen).segmentation = {}) =>
            /\ history[k].ret = None
            /\ history[k].after = history[k].before
            /\ history[k].chosen \notin history[k].after
            /\ history[k].chosen \notin selected_masks

\* C4 witness: with one mask selected already, a call chose a mask without
\* a true pixel
C4_Witness ==
    \E k \in 1..Len(history) :
        /\ history[k].chosen # 0
        /\ MaskOf(history[k].chosen).segmentation = {}
        /\ history[k].before # {}

\* strictly below the coverage threshold 0.95 = 19/20 of the image
BelowCoverage(mask) == 20 * mask.area < 19 * (image.height * image.width)

\* C7: the inventory is the generator's output, in its order, without the
\* masks at or above 0.95 of the image; of a 100 x 100 image a mask of area
\* 9600 or 9500 is dropped and one of area 4000 is kept
C7_CoverageFilter ==
    pc # "new" =>
        /\ masks = SelectSeq(raw, BelowCoverage)
        /\ (image.height = 100 /\ image.width = 100) =>
              \A i \in 1..Len(raw) :
                  /\ raw[i].area \in {9500, 9600} => raw[i].id \notin RetainedIds
                  /\ raw[i].area = 4000 => raw[i].id \in RetainedIds

\* C7 witness: of areas 9600, 4000, 9500 only the second is retained
C7_Witness ==
    /\ pc # "new"
    /\ Len(raw) = 3
    /\ raw[1].area = 9600 /\ raw[2].area = 4000 /\ raw[3].area = 9500
    /\ Len(masks) = 1 /\ masks[1].id = 2

\* C10: a retained mask of recorded area 0 is never in selected_masks and
\* no get_best_point call chooses it
C10_ZeroAreaNeverSelected ==
    \A i \in 1..Len(masks) :
        masks[i].area = 0 =>
            /\ masks[i].id \notin selected_masks
            /\ \A k \in 1..Len(history) : history[k].chosen # masks[i].id

\* C10 witness: a mask of area 0 holding true pixels is retained, another
\* mask was selected and a later call returned None
C10_Witness ==
    /\ \E i \in 1..Len(masks) : masks[i].area = 0 /\ masks[i].segmentation # {}
    /\ selected_masks # {}
    /\ Len(history) >= 2
    /\ history[Len(history)].ret = None

-----------------------------------------------------------------------------
(* Properties of the selector and of the refinement *)

TotalPixels == image.height * image.width

\* IEEE 754 a >= b
FGe(a, b) ==
    IF a.k = "nan" \/ b.k = "nan" THEN FALSE
    ELSE IF b.k = "ninf" THEN TRUE
    ELSE IF a.k = "ninf" THEN FALSE
    ELSE a.v >= b.v

\* the weighted score of the candidate of index i (from 0) of the frame
FrameScore(i) == weighted_score(frame.masks[i + 1], frame.scores[i + 1], TotalPixels)

\* the weighted score of index i is >= that of every other candidate
Dominates(i) ==
    \A j \in 0..(Len(frame.masks) - 1) : j # i => FGe(FrameScore(i), FrameScore(j))

\* C5: over a non-empty candidate sequence the selector returns the
\* smallest index whose weighted score is >= that of every other candidate,
\* and index 0 for a single candidate whatever its score
C5_SmallestMaximalIndex ==
    (pc = "prior" /\ Len(frame.masks) >= 1) =>
        /\ frame.selected_mask \in 0..(Len(frame.masks) - 1)
        /\ Dominates(frame.selected_mask)
        /\ \A i \in 0..(frame.selected_mask - 1) : ~Dominates(i)
        /\ Len(frame.masks) = 1 => frame.selected_mask = 0

\* the record of the selection of round r of the call started last
Selection(r) == trace[2 * r].arg

Selected(r) == Len(trace) >= 2 * r /\ trace[2 * r].ev = "select"

\* C6: a selection over zero candidates returns -1, which is the index of
\* no candidate of any sequence, and reads no element of masks or scores
C6_EmptySelection ==
    \A r \in {1, 2} :
        (Selected(r) /\ stub[r].masks = <<>>) =>
            /\ Selection(r).best_index = -1
            /\ Selection(r).best_index \notin 0..(MaxCand - 1)
            /\ Selection(r).touched = {}

\* C6 witness: the second round returned no candidate and was selected over
C6_Witness ==
    /\ Selected(2) /\ stub[2].masks = <<>>
    /\ Len(stub[1].masks) = 2

Fails(out) == out.raises \/ out.masks = <<>>

\* a propagate_points call has ended and nothing was called since
Ended == pc = "idle" /\ trace # <<>>

\* C8: a propagate_points call whose predictor returns candidates in both
\* rounds takes five steps: a predictor call without prior, the selection
\* i0 over round 1, a predictor call with the same points and labels and
\* round 1's logits[i0] as mask_input, the selection i1 over round 2, the
\* return of round 2's masks[i1]; the predictor is called twice and the
\* mask returned is a mask of round 2
C8_TwoRounds ==
    (Ended /\ ~Fails(stub[1]) /\ ~Fails(stub[2])) =>
        LET i0 == _weighted_mask_selection(stub[1].masks, stub[1].scores,
                                           TotalPixels).best_index
            i1 == _weighted_mask_selection(stub[2].masks, stub[2].scores,
                                           TotalPixels).best_index
        IN  /\ [k \in 1..Len(trace) |-> trace[k].ev]
                  = <<"predict", "select", "predict", "select", "return">>
            /\ Len(calls) = 2
            /\ trace[1].arg = calls[1] /\ trace[3].arg = calls[2]
            /\ calls[1].mask_input = None
            /\ Selection(1).best_index = i0
            /\ calls[2].point_coords = calls[1].point_coords
            /\ calls[2].point_labels = calls[1].point_labels
            /\ calls[2].mask_input = PyIndex(stub[1].logits, i0)
            /\ Selection(2).best_index = i1
            /\ trace[5].arg = PyIndex(stub[2].masks, i1)
            /\ ret = [kind |-> "mask", mask |-> PyIndex(stub[2].masks, i1)]
            /\ ret.mask.round = 2

\* C8 witness: a call has returned a mask after the second of two
\* candidates won round 1
C8_Witness ==
    /\ Ended /\ ret.kind = "mask"
    /\ Len(stub[1].masks) = 2 /\ Len(stub[2].masks) = 2
    /\ calls[2].mask_input = [round |-> 1, slot |-> 1]

\* C9: when the predictor raises or returns no candidate in round 1 or in
\* round 2, propagate_points ends in an exception and returns no mask; the
\* predictor is not called again after the failing call, so once when
\* round 1 fails and twice when round 2 fails
C9_FailureSurfaces ==
    Ended =>
        /\ Fails(stub[1]) =>
              /\ ret.kind = "raise"
              /\ Len(calls) = 1
              /\ \A k \in 1..Len(trace) : trace[k].ev # "return"
        /\ (~Fails(stub[1]) /\ Fails(stub[2])) =>
              /\ ret.kind = "raise"
              /\ Len(calls) = 2
              /\ \A k \in 1..Len(trace) : trace[k].ev # "return"

\* C9 witness: round 1 returned no candidate and the call raised
C9_Witness ==
    /\ Ended /\ ret.kind = "raise"
    /\ ~stub[1].raises /\ stub[1].masks = <<>>
    /\ ~Fails(stub[2])

====
